---- MODULE Spec2Model ----
(***************************************************************************)
(* Model of the document-management backend (src/src/main.py, crud.py,     *)
(* models.py, schemas.py).                                                 *)
(*                                                                         *)
(* Execution model, as the handlers are declared in main.py:               *)
(*  - `async def` handlers (create_document, trigger_ingestion) and the    *)
(*    `async def` background task process_ingestion_task run on the one    *)
(*    event loop of the process.  None of them awaits anything between     *)
(*    its first and last statement, so each runs as one step, except that  *)
(*    process_ingestion_task calls the blocking time.sleep(5) (main.py     *)
(*    line 146): it keeps the event loop for the whole delay.  `running`   *)
(*    is the document whose execution holds the loop.                      *)
(*  - `def` handlers (create_user, update_user_role, delete_user,          *)
(*    delete_document, get_ingestion_status) run in worker threads, one    *)
(*    per request, concurrently with the event loop and with each other.   *)
(*  - a background task added by trigger_ingestion runs after the response *)
(*    of its request was sent; other event-loop work may run in between.   *)
(***************************************************************************)
EXTENDS Integers, Sequences, FiniteSets, TLC

\* ---------------------------------------------------------------- bounds
MaxUserId == 2
MaxDocId == 2

\* ---------------------------------------------------------- input domains
Usernames == {"alice", "bob"}
Emails == {"a@x.org", "b@x.org"}
EnumeratedRoles == {"admin", "editor", "viewer"}
RoleInputs == {"admin", "viewer", "superuser"}
Filenames == {<<"a", ".", "t">>, <<"b">>}
Workers == {"w1", "w2"}

\* Python None where a string is expected, and the absent row of a query
None == "None"
NoRow == [id |-> 0]
NullId == 0
NoDoc == 0

VARIABLES
    users,            \* table users: id -> row
    nextUserId,       \* next value of the users.id sequence
    reg,              \* the POST /users/ request of each worker thread
    adminResp,        \* response of the last role update / user deletion
    documents,        \* table documents: id -> row
    nextDocId,        \* next value of the documents.id sequence
    blobs,            \* files under settings.documents_upload_path
    ingestion_tasks,  \* main.py ingestion_tasks: document id -> IngestionTask
    scheduled,        \* background executions added and not yet started, per id
    running,          \* the document whose process_ingestion_task holds the loop
    resp,             \* response of the last ingestion / document request
    tokens,           \* the access tokens issued and not yet expired
    authResp          \* response of the last login / GET /users/me/ request

userVars == <<users, nextUserId, reg, adminResp>>
docVars == <<documents, nextDocId, blobs>>
ingestVars == <<ingestion_tasks, scheduled, running, resp>>
authVars == <<tokens, authResp>>
vars == <<users, nextUserId, reg, adminResp, documents, nextDocId, blobs,
          ingestion_tasks, scheduled, running, resp, tokens, authResp>>

UserIds == 1..MaxUserId
DocIds == 1..MaxDocId

\* ------------------------------------------------------------ persistence
\* crud.get_user
get_user(user_id) ==
    IF user_id \in DOMAIN users THEN users[user_id] ELSE NoRow

\* crud.get_user_by_username: the first row with that username, or None
get_user_by_username(username) ==
    IF \E i \in DOMAIN users : users[i].username = username
    THEN LET i == CHOOSE i \in DOMAIN users :
                    /\ users[i].username = username
                    /\ \A j \in DOMAIN users :
                          users[j].username = username => i <= j
         IN users[i]
    ELSE NoRow

\* crud.get_user_by_email
get_user_by_email(email) ==
    IF \E i \in DOMAIN users : users[i].email = email
    THEN LET i == CHOOSE i \in DOMAIN users :
                    /\ users[i].email = email
                    /\ \A j \in DOMAIN users : users[j].email = email => i <= j
         IN users[i]
    ELSE NoRow

\* crud.get_document
get_document(document_id) ==
    IF document_id \in DOMAIN documents THEN documents[document_id] ELSE NoRow

\* The authorization guard get_current_active_user: a presented token is
\* resolved to the stored, active user its subject names; every stored user
\* can obtain such a token by logging in.
CurrentUsers == {users[i] : i \in DOMAIN users}


\* ------------------------------------------------------------------ users
\* schemas.UserCreate: the request body of a registration; role is any
\* string and is "viewer" when the body leaves it out
Omitted == "omitted"
UserCreate(username, email, role) ==
    [username |-> username, email |-> email,
     role |-> IF role = Omitted THEN "viewer" ELSE role]

\* faulty variant: the columns are not declared unique
UniqueViolation_NoConstraint(user) ==
    FALSE

\* models.User: username and email are unique=True columns; the INSERT of
\* a row that repeats either raises IntegrityError
UniqueViolation(user) ==
    \E i \in DOMAIN users :
        \/ users[i].username = user.username
        \/ users[i].email = user.email

Idle(code, detail) == [pc |-> "idle", code |-> code, detail |-> detail]

InFlight == {w \in Workers : reg[w].pc # "idle"}

\* POST /users/ arrives and is given to worker thread w
RegStart(w, username, email, role) ==
    /\ reg[w].pc = "idle"
    /\ nextUserId + Cardinality(InFlight) <= MaxUserId
    /\ reg' = [reg EXCEPT ![w] = [pc |-> "check_username",
                                  user |-> UserCreate(username, email, role)]]
    /\ UNCHANGED authVars
    /\ UNCHANGED <<users, nextUserId, adminResp, docVars, ingestVars>>

\* create_user, lines 59-61
RegCheckUsername(w) ==
    /\ reg[w].pc = "check_username"
    /\ reg' = [reg EXCEPT ![w] =
                  IF get_user_by_username(reg[w].user.username) # NoRow
                  THEN Idle(400, "Username already registered")
                  ELSE [@ EXCEPT !.pc = "check_email"]]
    /\ UNCHANGED authVars
    /\ UNCHANGED <<users, nextUserId, adminResp, docVars, ingestVars>>

\* create_user, lines 62-64
RegCheckEmail(w) ==
    /\ reg[w].pc = "check_email"
    /\ reg' = [reg EXCEPT ![w] =
                  IF get_user_by_email(reg[w].user.email) # NoRow
                  THEN Idle(400, "Email already registered")
                  ELSE [@ EXCEPT !.pc = "create"]]
    /\ UNCHANGED authVars
    /\ UNCHANGED <<users, nextUserId, adminResp, docVars, ingestVars>>

\* create_user, line 65, and crud.create_user: the row is inserted with the
\* role of the request; an IntegrityError is caught nowhere and becomes a 500
RegCreate(w) ==
    /\ reg[w].pc = "create"
    /\ IF UniqueViolation(reg[w].user)
       THEN /\ reg' = [reg EXCEPT ![w] = Idle(500, "IntegrityError")]
            /\ UNCHANGED <<users, nextUserId>>
       ELSE /\ users' = [i \in DOMAIN users \cup {nextUserId} |->
                            IF i = nextUserId
                            THEN [id |-> nextUserId,
                                  username |-> reg[w].user.username,
                                  email |-> reg[w].user.email,
                                  role |-> reg[w].user.role]
                            ELSE users[i]]
            /\ nextUserId' = nextUserId + 1
            /\ reg' = [reg EXCEPT ![w] = Idle(200, "created")]
    /\ UNCHANGED authVars
    /\ UNCHANGED <<adminResp, docVars, ingestVars>>

\* faulty variant: the gate only keeps viewers out
IsAdmin_NotViewer(current_user) ==
    current_user.role # "viewer"

\* main.py lines 81 and 90: current_user.role != "admin" raises 403
IsAdmin(current_user) ==
    current_user.role = "admin"

AdminResponse(op, code) == [op |-> op, code |-> code]

\* PUT /users/{user_id}/role with crud.update_user_role
UpdateUserRole(current_user, user_id, role) ==
    /\ IF ~IsAdmin(current_user)
       THEN /\ adminResp' = AdminResponse("update_user_role", 403)
            /\ UNCHANGED users
       ELSE IF get_user(user_id) = NoRow
       THEN /\ adminResp' = AdminResponse("update_user_role", 404)
            /\ UNCHANGED users
       ELSE /\ users' = [users EXCEPT ![user_id].role = role]
            /\ adminResp' = AdminResponse("update_user_role", 200)
    /\ UNCHANGED authVars
    /\ UNCHANGED <<nextUserId, reg, docVars, ingestVars>>

\* DELETE /users/{user_id} with crud.delete_user; the relationship
\* User.documents has no delete cascade, so the session sets owner_id of the
\* user's documents to NULL when it deletes the row
DeleteUser(current_user, user_id) ==
    /\ IF ~IsAdmin(current_user)
       THEN /\ adminResp' = AdminResponse("delete_user", 403)
            /\ UNCHANGED <<users, documents>>
       ELSE IF get_user(user_id) = NoRow
       THEN /\ adminResp' = AdminResponse("delete_user", 404)
            /\ UNCHANGED <<users, documents>>
       ELSE /\ users' = [i \in DOMAIN users \ {user_id} |-> users[i]]
            /\ documents' = [i \in DOMAIN documents |->
                                IF documents[i].owner_id = user_id
                                THEN [documents[i] EXCEPT !.owner_id = NullId]
                                ELSE documents[i]]
            /\ adminResp' = AdminResponse("delete_user", 200)
    /\ UNCHANGED authVars
    /\ UNCHANGED <<nextUserId, reg, nextDocId, blobs, ingestVars>>

\* ------------------------------------------------------------- documents
\* main.py line 108: file.filename.split(".")[0] if "." in file.filename
\* else file.filename (a filename is the sequence of its characters)
RECURSIVE DocumentTitle(_)
DocumentTitle(filename) ==
    IF filename = <<>> \/ Head(filename) = "." THEN <<>>
    ELSE <<Head(filename)>> \o DocumentTitle(Tail(filename))

\* models.Document.upload_time: default=datetime.now(UTC) is evaluated once,
\* when the module is imported, and every row gets that instant
ImportTime == 0

\* crud.create_document: the inserted row
NewDocument(id, filename, owner_id) ==
    [id |-> id, title |-> DocumentTitle(filename), filename |-> filename,
     upload_time |-> ImportTime, owner_id |-> owner_id]

\* POST /documents/ (async def: runs on the event loop)
CreateDocument(current_user, filename) ==
    /\ running = NoDoc
    /\ nextDocId <= MaxDocId
    /\ blobs' = blobs \cup {filename}
    /\ documents' = [i \in DOMAIN documents \cup {nextDocId} |->
                        IF i = nextDocId
                        THEN NewDocument(nextDocId, filename, current_user.id)
                        ELSE documents[i]]
    /\ nextDocId' = nextDocId + 1
    /\ UNCHANGED authVars
    /\ UNCHANGED <<userVars, ingestVars>>

\* faulty variant: the deletion also evicts the tracker entry of the document
DeleteDocument_Evicts(current_user, document_id) ==
    /\ get_document(document_id) # NoRow
    /\ documents' = [i \in DOMAIN documents \ {document_id} |-> documents[i]]
    /\ ingestion_tasks' = [i \in DOMAIN ingestion_tasks \ {document_id} |->
                              ingestion_tasks[i]]
    /\ UNCHANGED authVars
    /\ UNCHANGED <<userVars, nextDocId, blobs, scheduled, running, resp>>

\* DELETE /documents/{document_id} (def: runs in a worker thread)
DeleteDocument(current_user, document_id) ==
    /\ get_document(document_id) # NoRow
    /\ documents' = [i \in DOMAIN documents \ {document_id} |-> documents[i]]
    /\ UNCHANGED authVars
    /\ UNCHANGED <<userVars, nextDocId, blobs, ingestVars>>

\* ------------------------------------------------------ ingestion tracker
\* schemas.IngestionTask(document_id=document_id, status="pending")
IngestionTask(document_id) ==
    [document_id |-> document_id, status |-> "pending", message |-> None]

\* faulty variant: the check forgets the status pending
AlreadyRunning_OnlyProcessing(document_id) ==
    /\ document_id \in DOMAIN ingestion_tasks
    /\ ingestion_tasks[document_id].status \in {"processing"}

\* main.py line 165: the entry for document_id is live
AlreadyRunning(document_id) ==
    /\ document_id \in DOMAIN ingestion_tasks
    /\ ingestion_tasks[document_id].status \in {"pending", "processing"}

\* a response of the ingestion trigger: status code and, on success, the
\* serialised IngestionTask
TriggerResponse(document_id, code, task) ==
    [op |-> "trigger", document_id |-> document_id, code |-> code,
     body |-> task]

\* faulty variant: the execution is never added to the background tasks
add_task_Forgotten(document_id) ==
    scheduled

\* background_tasks.add_task(process_ingestion_task, document_id)
add_task(document_id) ==
    [scheduled EXCEPT ![document_id] = @ + 1]

\* POST /ingest/{document_id} (async def: runs on the event loop)
TriggerIngestion(current_user, document_id) ==
    /\ running = NoDoc
    /\ IF get_document(document_id) = NoRow
       THEN /\ resp' = TriggerResponse(document_id, 404, NoRow)
            /\ UNCHANGED <<ingestion_tasks, scheduled>>
       ELSE IF AlreadyRunning(document_id)
       THEN /\ resp' = TriggerResponse(document_id, 400, NoRow)
            /\ UNCHANGED <<ingestion_tasks, scheduled>>
       ELSE /\ ingestion_tasks' =
                  [i \in DOMAIN ingestion_tasks \cup {document_id} |->
                      IF i = document_id THEN IngestionTask(document_id)
                      ELSE ingestion_tasks[i]]
            /\ scheduled' = add_task(document_id)
            /\ resp' = TriggerResponse(document_id, 200,
                                       ingestion_tasks'[document_id])
    /\ UNCHANGED authVars
    /\ UNCHANGED <<userVars, docVars, running>>

\* faulty variant: the execution looks its entry up under a wrong key, finds none
\* and returns
RunStart_EntryNotFound(document_id) ==
    /\ running = NoDoc
    /\ scheduled[document_id] > 0
    /\ scheduled' = [scheduled EXCEPT ![document_id] = @ - 1]
    /\ UNCHANGED authVars
    /\ UNCHANGED <<userVars, docVars, ingestion_tasks, running, resp>>

\* process_ingestion_task, lines 142-146: the execution starts, marks the
\* entry processing and enters time.sleep holding the event loop; with no
\* entry it only prints and returns
RunStart(document_id) ==
    /\ running = NoDoc
    /\ scheduled[document_id] > 0
    /\ scheduled' = [scheduled EXCEPT ![document_id] = @ - 1]
    /\ IF document_id \in DOMAIN ingestion_tasks
       THEN /\ ingestion_tasks' =
                  [ingestion_tasks EXCEPT ![document_id].status = "processing"]
            /\ running' = document_id
       ELSE UNCHANGED <<ingestion_tasks, running>>
    /\ UNCHANGED authVars
    /\ UNCHANGED <<userVars, docVars, resp>>

\* faulty variant: the entry is put back to pending when the delay is over
RunComplete_BackToPending ==
    /\ running # NoDoc
    /\ ingestion_tasks[running].status = "processing"
    /\ ingestion_tasks' =
          [ingestion_tasks EXCEPT ![running].status = "pending"]
    /\ running' = NoDoc
    /\ UNCHANGED authVars
    /\ UNCHANGED <<userVars, docVars, scheduled, resp>>

\* process_ingestion_task, line 147: the delay is over
RunComplete ==
    /\ running # NoDoc
    /\ ingestion_tasks[running].status = "processing"
    /\ ingestion_tasks' =
          [ingestion_tasks EXCEPT ![running].status = "completed"]
    /\ UNCHANGED authVars
    /\ UNCHANGED <<userVars, docVars, scheduled, running, resp>>

\* process_ingestion_task, lines 148-149: the message is set and the
\* coroutine returns, which frees the event loop
RunMessage ==
    /\ running # NoDoc
    /\ ingestion_tasks[running].status = "completed"
    /\ ingestion_tasks' =
          [ingestion_tasks EXCEPT
              ![running].message = "Ingestion completed successfully."]
    /\ running' = NoDoc
    /\ UNCHANGED authVars
    /\ UNCHANGED <<userVars, docVars, scheduled, resp>>

\* GET /ingestion/status (def: runs in a worker thread): the whole mapping
GetIngestionStatus(current_user) ==
    /\ resp' = [op |-> "status", code |-> 200, body |-> ingestion_tasks]
    /\ UNCHANGED authVars
    /\ UNCHANGED <<userVars, docVars, ingestion_tasks, scheduled, running>>

\* --------------------------------------------------------- authentication
\* create_access_token(data={"sub": user.username}, ...): the signed token
\* carries the username as its subject.  uid, the id of the user who logged
\* in, is not part of the token: it records whom the token was issued to.
AccessToken(user) == [sub |-> user.username, uid |-> user.id]

\* the tokens a client can present: issued ones, expired or not, and others
PresentedTokens == [sub : Usernames, uid : UserIds]

\* auth.authenticate_user: the stored user of that name when the password
\* verifies against its hash, no user otherwise
authenticate_user(username, password_ok) ==
    IF password_ok THEN get_user_by_username(username) ELSE NoRow

\* auth.get_current_active_user: verify_token (signature and expiry), then
\* the lookup of the subject among the stored users; no user when either
\* fails (every stored user is active: nothing sets is_active to false)
get_current_active_user(token) ==
    IF token \in tokens THEN get_user_by_username(token.sub) ELSE NoRow

\* POST /token
LoginForAccessToken(username, password_ok) ==
    /\ LET user == authenticate_user(username, password_ok) IN
         IF user = NoRow
         THEN /\ authResp' = [op |-> "login", code |-> 401]
              /\ UNCHANGED tokens
         ELSE /\ tokens' = tokens \cup {AccessToken(user)}
              /\ authResp' = [op |-> "login", code |-> 200]
    /\ UNCHANGED <<userVars, docVars, ingestVars>>

\* settings.access_token_expire_minutes have passed since token was issued
Expire(token) ==
    /\ token \in tokens
    /\ tokens' = tokens \ {token}
    /\ UNCHANGED <<userVars, docVars, ingestVars, authResp>>

\* GET /users/me/ with a bearer token: the user the guard resolved, or 401
ReadUsersMe(token) ==
    /\ LET current_user == get_current_active_user(token) IN
         authResp' = [op |-> "read_users_me", token |-> token,
                      code |-> IF current_user = NoRow THEN 401 ELSE 200,
                      user |-> current_user]
    /\ UNCHANGED <<userVars, docVars, ingestVars, tokens>>

\* --------------------------------------------------------- specifications
NoResponse == [op |-> "none"]

Init ==
    /\ users = << >>
    /\ nextUserId = 1
    /\ reg = [w \in Workers |-> Idle(0, None)]
    /\ adminResp = NoResponse
    /\ documents = << >>
    /\ nextDocId = 1
    /\ blobs = {}
    /\ ingestion_tasks = << >>
    /\ scheduled = [d \in DocIds |-> 0]
    /\ running = NoDoc
    /\ resp = NoResponse
    /\ tokens = {}
    /\ authResp = NoResponse

\* the state after worker w1 registered alice as a viewer (a state SpecUsers
\* reaches, see InitIngestReached): the ingestion and document requests need
\* an authenticated user
InitIngest ==
    /\ users = (1 :> [id |-> 1, username |-> "alice", email |-> "a@x.org",
                      role |-> "viewer"])
    /\ nextUserId = 2
    /\ reg = [w \in Workers |-> IF w = "w1" THEN Idle(200, "created")
                                ELSE Idle(0, None)]
    /\ adminResp = NoResponse
    /\ documents = << >>
    /\ nextDocId = 1
    /\ blobs = {}
    /\ ingestion_tasks = << >>
    /\ scheduled = [d \in DocIds |-> 0]
    /\ running = NoDoc
    /\ resp = NoResponse
    /\ tokens = {}
    /\ authResp = NoResponse

NextIngest ==
    \/ \E u \in CurrentUsers, filename \in Filenames :
          CreateDocument(u, filename)
    \/ \E u \in CurrentUsers, d \in DocIds : DeleteDocument(u, d)
    \/ \E u \in CurrentUsers, d \in DocIds : TriggerIngestion(u, d)
    \/ \E d \in DocIds : RunStart(d)
    \/ RunComplete
    \/ RunMessage
    \/ \E u \in CurrentUsers : GetIngestionStatus(u)

NextUsers ==
    \/ \E w \in Workers, username \in Usernames, email \in Emails,
          role \in RoleInputs \cup {Omitted} :
          RegStart(w, username, email, role)
    \/ \E w \in Workers : RegCheckUsername(w)
    \/ \E w \in Workers : RegCheckEmail(w)
    \/ \E w \in Workers : RegCreate(w)
    \/ \E u \in CurrentUsers, id \in UserIds, role \in RoleInputs :
          UpdateUserRole(u, id, role)
    \/ \E u \in CurrentUsers, id \in UserIds : DeleteUser(u, id)

SpecUsers == Init /\ [][NextUsers]_vars

\* registrations, role updates and user deletions with logins, token expiry
\* and authenticated requests
NextAuth ==
    \/ NextUsers
    \/ \E username \in Usernames, password_ok \in BOOLEAN :
          LoginForAccessToken(username, password_ok)
    \/ \E token \in PresentedTokens : Expire(token)
    \/ \E token \in PresentedTokens : ReadUsersMe(token)

SpecAuth == Init /\ [][NextAuth]_vars

\* SpecUsers reaches the initial state of SpecIngest
InitIngestReached == ~InitIngest

SpecIngest == InitIngest /\ [][NextIngest]_vars

\* the state after w1 registered alice as an admin and w2 bob as a viewer (a
\* state SpecUsers reaches, see InitDocsReached)
InitDocs ==
    /\ users = (1 :> [id |-> 1, username |-> "alice", email |-> "a@x.org",
                      role |-> "admin"]) @@
               (2 :> [id |-> 2, username |-> "bob", email |-> "b@x.org",
                      role |-> "viewer"])
    /\ nextUserId = 3
    /\ reg = [w \in Workers |-> Idle(200, "created")]
    /\ adminResp = NoResponse
    /\ documents = << >>
    /\ nextDocId = 1
    /\ blobs = {}
    /\ ingestion_tasks = << >>
    /\ scheduled = [d \in DocIds |-> 0]
    /\ running = NoDoc
    /\ resp = NoResponse
    /\ tokens = {}
    /\ authResp = NoResponse

InitDocsReached == ~InitDocs

\* uploads and deletions of documents with role updates and user deletions
NextDocs ==
    \/ \E u \in CurrentUsers, filename \in Filenames :
          CreateDocument(u, filename)
    \/ \E u \in CurrentUsers, d \in DocIds : DeleteDocument(u, d)
    \/ \E u \in CurrentUsers, id \in UserIds, role \in RoleInputs :
          UpdateUserRole(u, id, role)
    \/ \E u \in CurrentUsers, id \in UserIds : DeleteUser(u, id)

SpecDocs == InitDocs /\ [][NextDocs]_vars


\* the scheduler runs every ready background execution (the event loop
\* serves its ready queue in order) and a started execution runs on
FairIngest ==
    /\ SpecIngest
    /\ \A d \in DocIds : SF_vars(RunStart(d))
    /\ WF_vars(RunComplete)
    /\ WF_vars(RunMessage)

\* ------------------------------------------------- claims on the tracker
\* status of the tracker entry of d, "absent" without one
StatusOf(d) ==
    IF d \in DOMAIN ingestion_tasks THEN ingestion_tasks[d].status
    ELSE "absent"

LiveEntry(d) == StatusOf(d) \in {"pending", "processing"}

\* number of background executions of d that are scheduled or running
Executions(d) == scheduled[d] + (IF running = d THEN 1 ELSE 0)

SuccessMessage == "Ingestion completed successfully."

\* C1, as stated: a trigger(d) issued while the entry of d is pending or
\* processing fails with AlreadyRunning (400), changes no entry and schedules
\* no execution.
C1_AlreadyRunningAlways ==
    [][\A u \in CurrentUsers, d \in DocIds :
          (LiveEntry(d) /\ TriggerIngestion(u, d)) =>
              /\ resp'.code = 400
              /\ ingestion_tasks' = ingestion_tasks
              /\ scheduled' = scheduled]_vars

\* C1, amended: a trigger(d) issued while the entry of d is pending or
\* processing fails, with AlreadyRunning (400) when the document d is stored
\* and with NotFound (404) when it is not (it was deleted after its trigger);
\* either way it changes no entry and schedules no execution.
C1_LiveEntryRejected ==
    [][\A u \in CurrentUsers, d \in DocIds :
          (LiveEntry(d) /\ TriggerIngestion(u, d)) =>
              /\ resp'.code = (IF d \in DOMAIN documents THEN 400 ELSE 404)
              /\ ingestion_tasks' = ingestion_tasks
              /\ scheduled' = scheduled
              /\ running' = running]_vars

\* a trigger of a stored document was rejected while its entry is pending
C1_Witness ==
    \E d \in DOMAIN documents :
        /\ resp = TriggerResponse(d, 400, NoRow)
        /\ StatusOf(d) = "pending"
        /\ scheduled[d] = 1

\* C2: at most one background execution is scheduled or running per
\* document id: of overlapping triggers of one document at most one succeeds.
C2_AtMostOneExecution ==
    \A d \in DocIds : Executions(d) <= 1

\* the one execution of d is in its delay after an overlapping trigger of d
\* was rejected
C2_Witness ==
    \E d \in DocIds :
        /\ resp = TriggerResponse(d, 400, NoRow)
        /\ running = d
        /\ Executions(d) = 1

\* C3: a successful trigger(d) inserts the entry (pending, no message), its
\* response carries status pending, and when the response is produced the
\* execution of d is scheduled and has not started: the entry is still
\* pending and no execution holds the event loop.
C3_TriggerReturnsPending ==
    [][\A u \in CurrentUsers, d \in DocIds :
          (TriggerIngestion(u, d) /\ resp'.code = 200) =>
              /\ ingestion_tasks'[d] =
                    [document_id |-> d, status |-> "pending", message |-> None]
              /\ resp'.body.status = "pending"
              /\ resp'.body.message = None
              /\ scheduled'[d] = scheduled[d] + 1
              /\ running' = NoDoc]_vars

C3_Witness ==
    \E d \in DocIds :
        /\ resp.op = "trigger" /\ resp.code = 200 /\ resp.document_id = d
        /\ resp.body.status = "pending"
        /\ StatusOf(d) = "pending"
        /\ scheduled[d] = 1
        /\ running = NoDoc

\* C4, as stated: while run(d) is inside its simulated unit of work, a status
\* query and a trigger for a different (stored) document can be handled.
C4_RequestsHandledDuringRun ==
    \A d \in DocIds :
        (running = d /\ StatusOf(d) = "processing") =>
            \A u \in CurrentUsers :
                /\ ENABLED GetIngestionStatus(u)
                /\ \A d2 \in DOMAIN documents \ {d} :
                      ENABLED TriggerIngestion(u, d2)

\* the second half of C4: a status query that reads the mapping while the
\* execution of d is scheduled or in its delay sees d pending or processing
C4_StatusSeenLive ==
    [][\A u \in CurrentUsers, d \in DocIds :
          (GetIngestionStatus(u)
              /\ (scheduled[d] > 0
                     \/ (running = d /\ StatusOf(d) = "processing"))) =>
              resp'.body[d].status \in {"pending", "processing"}]_vars

\* C5: every successful trigger(d), which leaves the entry of d pending, is
\* eventually followed by a state where the entry of d is completed with the
\* success message.
C5_EventuallyCompleted ==
    \A d \in DocIds :
        (StatusOf(d) = "pending") ~>
            (StatusOf(d) = "completed"
                /\ ingestion_tasks[d].message = SuccessMessage)

\* the execution of a deleted document has completed
C5_Witness ==
    \E d \in DocIds :
        /\ resp.op = "trigger" /\ resp.code = 200 /\ resp.document_id = d
        /\ d \notin DOMAIN documents
        /\ StatusOf(d) = "completed"
        /\ ingestion_tasks[d].message = SuccessMessage

\* C6: the status of an entry changes only along absent -> pending ->
\* processing -> completed (or failed), and an entry leaves completed or
\* failed only by a successful trigger, which replaces it by a fresh pending
\* entry.
Lifecycle ==
    {<<"absent", "pending">>, <<"pending", "processing">>,
     <<"processing", "completed">>, <<"processing", "failed">>,
     <<"completed", "pending">>, <<"failed", "pending">>}

C6_Lifecycle ==
    [][\A d \in DocIds :
          StatusOf(d)' # StatusOf(d) =>
              /\ <<StatusOf(d), StatusOf(d)'>> \in Lifecycle
              /\ StatusOf(d) \in {"completed", "failed"} =>
                    /\ ingestion_tasks'[d] =
                          [document_id |-> d, status |-> "pending",
                           message |-> None]
                    /\ resp'.op = "trigger" /\ resp'.code = 200
                    /\ resp'.document_id = d
                    /\ scheduled'[d] = scheduled[d] + 1]_vars

\* one entry went through the whole lifecycle while another is in its delay
C6_Witness ==
    \E d, e \in DocIds :
        /\ StatusOf(d) = "completed"
        /\ ingestion_tasks[d].message = SuccessMessage
        /\ StatusOf(e) = "processing"
        /\ running = e


\* ------------------------------------------------------ claims on users
UsernameTaken(username) == \E i \in DOMAIN users : users[i].username = username
EmailTaken(email) == \E i \in DOMAIN users : users[i].email = email

\* C7: a role update or user deletion by a user whose role is not admin
\* fails with 403 whether or not the target exists, and one by an admin on
\* an id that is not stored fails with 404; both leave the stored users (and
\* documents) unchanged.
C7_AdminOnly ==
    [][\A u \in CurrentUsers, id \in UserIds :
          ((\E role \in RoleInputs : UpdateUserRole(u, id, role))
              \/ DeleteUser(u, id)) =>
              /\ u.role # "admin" =>
                    /\ adminResp'.code = 403
                    /\ users' = users /\ documents' = documents
              /\ (u.role = "admin" /\ id \notin DOMAIN users) =>
                    /\ adminResp'.code = 404
                    /\ users' = users /\ documents' = documents]_vars

\* a deletion was refused to the only stored user, who is not an admin
C7_Witness ==
    /\ adminResp = AdminResponse("delete_user", 403)
    /\ Cardinality(DOMAIN users) = 1
    /\ \A i \in DOMAIN users : users[i].role # "admin"

\* C8, as stated, in its weakest reading (which of the two kinds is reported
\* is left open): a registration that ends while its username or its email
\* is taken ends as a 400, DuplicateUsername or DuplicateEmail, and creates
\* no user.
C8_DuplicateIs400 ==
    [][\A w \in Workers :
          (reg[w].pc # "idle" /\ reg'[w].pc = "idle"
              /\ (UsernameTaken(reg[w].user.username)
                     \/ EmailTaken(reg[w].user.email))) =>
              /\ reg'[w] \in {Idle(400, "Username already registered"),
                              Idle(400, "Email already registered")}
              /\ users' = users]_vars

\* C9: no two stored users share a username and no two share an email.
C9_UniqueUsers ==
    \A i, j \in DOMAIN users :
        i # j => /\ users[i].username # users[j].username
                 /\ users[i].email # users[j].email

\* two users are stored and the store refused the row of a registration
\* that had passed both checks
C9_Witness ==
    /\ Cardinality(DOMAIN users) = 2
    /\ \E w \in Workers : reg[w] = Idle(500, "IntegrityError")

\* C10, as stated: the role of every stored user is admin, editor or viewer.
C10_RoleEnumerated ==
    \A i \in DOMAIN users : users[i].role \in EnumeratedRoles


\* C12: no step removes an entry from the ingestion mapping (the set of
\* tracked ids only grows, also when the document is deleted), and every
\* background execution that starts finds the entry of its document: the
\* 'entry missing' branch of process_ingestion_task is never taken.
C12_EntryNeverRemoved ==
    [][/\ DOMAIN ingestion_tasks \subseteq DOMAIN ingestion_tasks'
       /\ \A d \in DocIds :
             RunStart(d) => /\ d \in DOMAIN ingestion_tasks
                            /\ running' = d]_vars

\* the execution of a document that was deleted after its trigger has found
\* its entry and is in its delay
C12_Witness ==
    \E d \in DocIds :
        /\ d \notin DOMAIN documents
        /\ running = d
        /\ StatusOf(d) = "processing"

\* -------------------------------------------------- claims on documents
\* C11, as stated: while a document is stored, no step changes its title,
\* filename, upload time or owner id (a step can only delete the document).
C11_MetadataImmutable ==
    [][\A d \in DOMAIN documents \cap DOMAIN documents' :
          /\ documents'[d].title = documents[d].title
          /\ documents'[d].filename = documents[d].filename
          /\ documents'[d].upload_time = documents[d].upload_time
          /\ documents'[d].owner_id = documents[d].owner_id]_vars


\* ------------------------------------------------------- claims on tokens
\* C13, as stated: a request that carries an unexpired token issued at login
\* to the user with id i is resolved to the user with id i or rejected as
\* Unauthenticated, never resolved to a user with another id.
C13_TokenBoundToUser ==
    (authResp.op = "read_users_me" /\ authResp.code = 200) =>
        authResp.user.id = authResp.token.uid

====
